---- MODULE Spec2Model ----
(***************************************************************************)
(* A model of clamav_report.py: the ResultCallback that buffers the        *)
(* results of the Ansible tasks, run_ansible, timestamp_to_string,         *)
(* create_host_row, write_csv and main.                                    *)
(*                                                                         *)
(* Python values are modelled as follows.  A str that the program only     *)
(* passes around is a TLA+ string; a str whose characters the program      *)
(* inspects (the --forks and --log-level arguments) is a sequence of       *)
(* one-character strings.  A dict is a function whose DOMAIN is the set of *)
(* its keys.  None is the string "None".                                   *)
(***************************************************************************)
EXTENDS Integers, Sequences, FiniteSets, TLC

VARIABLES
    \* main()
    argv,            \* the command line, as docopt will see it
    args,            \* docopt's argument map
    validated_args,  \* schema.validate's result
    pc,              \* main's position
    stages,          \* history: the stages main has entered, in order
    stderr,          \* what was printed to sys.stderr
    exit_status,     \* sys.exit's status, or None
    retval,          \* main's return value once it has returned
    logging_state,   \* the logging module: unconfigured, configured, shutdown
    error,           \* the exception that left main, or None
    \* run_ansible()
    apc,             \* run_ansible's position
    tqm,             \* the TaskQueueManager: None, created, cleaned
    tmpdir,          \* ANSIBLE_CONST.DEFAULT_LOCAL_TMP: present or removed
    pending,         \* the exception the finally block will let through
    results,         \* ResultCallback.results: host -> task name -> list
    order,           \* the insertion order of the keys of results
    nevents,         \* number of callbacks the engine has made
    okd,             \* history: the <<host, probe>> that had an ok callback
    bad,             \* history: the hosts that had an unreachable or failed callback
    events,          \* history: every callback made, in arrival order
    \* the row loop and write_csv
    idx,             \* number of entries of results.items() consumed
    csv_data,        \* the rows built so far
    csv_file,        \* the destination file
    handle,          \* the file object write_csv opened: None, open, closed
    \* create_host_row() on its own
    tz,              \* the local timezone's offset from UTC, in seconds
    row_in,          \* a host's results
    row_out,         \* what create_host_row did with them
    row_pc

mainVars == <<argv, args, validated_args, pc, stages, stderr, exit_status,
              retval, logging_state, error>>
probeVars == <<apc, tqm, tmpdir, pending, results, order, nevents, okd, bad, events>>
csvVars == <<idx, csv_data, csv_file, handle>>
rowVars == <<tz, row_in, row_out, row_pc>>
vars == <<mainVars, probeVars, csvVars, rowVars>>

None == "None"

-----------------------------------------------------------------------------
(* Module constants.                                                       *)

FIELDS == <<"Group Name", "System Name", "Last Update Time", "Last Scan Time",
            "Host IPS Status (Host IPS)">>
CLAMAV_DB_FILENAME == "/var/lib/clamav/daily.cld"
LAST_SCAN_LOG_FILENAME == "/var/log/clamav/lastscan.log"
LAST_DETECTION_FILENAME == "/var/log/clamav/last_detection"

\* The paths of the three stat tasks of the play, in the play's order.
StatPaths == <<LAST_SCAN_LOG_FILENAME, LAST_DETECTION_FILENAME, CLAMAV_DB_FILENAME>>

Range(s) == {s[k] : k \in 1..Len(s)}

-----------------------------------------------------------------------------
(* timestamp_to_string                                                     *)

Digit == <<"0", "1", "2", "3", "4", "5", "6", "7", "8", "9">>
Pad2(n) == Digit[((n \div 10) % 10) + 1] \o Digit[(n % 10) + 1]
Pad4(n) == Pad2(n \div 100) \o Pad2(n % 100)

\* The proleptic Gregorian date of a day number counted from 1970-01-01.
CivilFromDays(days) ==
    LET z == days + 719468
        era == z \div 146097
        doe == z - era * 146097
        yoe == (doe - doe \div 1460 + doe \div 36524 - doe \div 146096) \div 365
        doy == doe - (365 * yoe + yoe \div 4 - yoe \div 100)
        mp == (5 * doy + 2) \div 153
        d == doy - (153 * mp + 2) \div 5 + 1
        m == IF mp < 10 THEN mp + 3 ELSE mp - 9
        y == yoe + era * 400 + (IF m <= 2 THEN 1 ELSE 0)
    IN  [year |-> y, month |-> m, day |-> d]

\* t.strftime(TIME_FORMAT), TIME_FORMAT = "%m/%d/%Y %H:%M", of an aware
\* datetime given by its seconds since the epoch in its own zone.
strftime(secs) ==
    LET date == CivilFromDays(secs \div 86400)
        sod == secs % 86400
    IN  Pad2(date.month) \o "/" \o Pad2(date.day) \o "/" \o Pad4(date.year)
        \o " " \o Pad2(sod \div 3600) \o ":" \o Pad2((sod % 3600) \div 60)

\* A conversion that formats the local wall clock, the step to UTC left out.
timestamp_to_local_string(mod_time) == strftime(mod_time + tz)

timestamp_to_string(mod_time) ==
    LET naive == mod_time + tz                      \* datetime.fromtimestamp: local wall clock
        aware == [wall |-> naive, utcoffset |-> tz] \* replace(tzinfo=tz.tzlocal())
        utc == aware.wall - aware.utcoffset         \* astimezone(tz.tzutc())
    IN  strftime(utc)

-----------------------------------------------------------------------------
(* create_host_row                                                         *)

\* d[key] of a defaultdict(list): a missing key reads as the empty list.
DefaultGet(d, key) == IF key \in DOMAIN d THEN d[key] ELSE <<>>

\* stat_task["stat"].get("mtime", 0)
GetMtime(stat) == IF "mtime" \in DOMAIN stat THEN stat.mtime ELSE 0

\* The loop over host_results["stat"]: mtimes after the first n stat results.
RECURSIVE MtimesLoop(_, _)
MtimesLoop(stat_tasks, n) ==
    IF n = 0 THEN [p \in {} |-> None]
    ELSE LET before == MtimesLoop(stat_tasks, n - 1)
             stat_task == stat_tasks[n]
             path == stat_task.invocation.module_args.path
             mtime == GetMtime(stat_task.stat)
         IN  [p \in DOMAIN before \cup {path} |->
                 IF p = path THEN timestamp_to_string(mtime) ELSE before[p]]

Raised(exc) == [exc |-> exc, row |-> [k \in {} |-> None]]
Returned(row) == [exc |-> None, row |-> row]

\* Reading the detection marker's time too, as the line that is commented
\* out in create_host_row would.
RowPathsWithDetection ==
    <<CLAMAV_DB_FILENAME, LAST_SCAN_LOG_FILENAME, LAST_DETECTION_FILENAME>>

\* The keys of mtimes that create_host_row reads after the loop, in order.
RowPaths == <<CLAMAV_DB_FILENAME, LAST_SCAN_LOG_FILENAME>>

create_host_row(host_results) ==
    LET gathered == DefaultGet(host_results, "Gathering Facts")
        facts == gathered[1].ansible_facts
        stat_tasks == DefaultGet(host_results, "stat")
        mtimes == MtimesLoop(stat_tasks, Len(stat_tasks))
    IN  IF Len(gathered) = 0 THEN Raised("IndexError")
        ELSE IF \E k \in 1..Len(RowPaths) : RowPaths[k] \notin DOMAIN mtimes
        THEN Raised("KeyError")
        ELSE Returned([key \in Range(FIELDS) |->
                CASE key = "System Name" -> facts.ansible_hostname
                  [] key = "Last Update Time" -> mtimes[CLAMAV_DB_FILENAME]
                  [] key = "Last Scan Time" -> mtimes[LAST_SCAN_LOG_FILENAME]
                  [] key = "Host IPS Status (Host IPS)" -> "ON"
                  [] OTHER -> None])

-----------------------------------------------------------------------------
(* The payloads the engine hands to the callback.                          *)

Hosts == {"h1", "h2"}

FactsOf(h) ==
    [ansible_facts |->
        [ansible_hostname |-> h,
         ansible_default_ipv4 |-> [address |-> "10.0.0." \o h],
         ansible_os_family |-> "Debian"]]

StatResult(path, stat) ==
    [invocation |-> [module_args |-> [path |-> path, get_checksum |-> FALSE]],
     stat |-> stat]

\* A stat of a file that exists carries its mtime; one of a missing file does not.
Mtimes == {119, 1594000000}
Stats == {[exists |-> FALSE]} \cup {[exists |-> TRUE, mtime |-> m] : m \in Mtimes}
StatResults == {StatResult(p, s) : p \in Range(StatPaths), s \in Stats}

-----------------------------------------------------------------------------
(* Argument validation: the Schema of main.                                *)

PyNone == [type |-> "NoneType"]
PyInt(n) == [type |-> "int", value |-> n]
Unset == [type |-> "unset"]

UpperCase == <<"A", "B", "C", "D", "E", "F", "G", "H", "I", "J", "K", "L", "M",
               "N", "O", "P", "Q", "R", "S", "T", "U", "V", "W", "X", "Y", "Z">>
LowerCase == <<"a", "b", "c", "d", "e", "f", "g", "h", "i", "j", "k", "l", "m",
               "n", "o", "p", "q", "r", "s", "t", "u", "v", "w", "x", "y", "z">>

IndexIn(seq, c) == CHOOSE k \in 1..Len(seq) : seq[k] = c

\* str.lower and str.upper, character by character.
str_lower(s) ==
    [k \in 1..Len(s) |->
        IF s[k] \in Range(UpperCase) THEN LowerCase[IndexIn(UpperCase, s[k])] ELSE s[k]]
str_upper(s) ==
    [k \in 1..Len(s) |->
        IF s[k] \in Range(LowerCase) THEN UpperCase[IndexIn(LowerCase, s[k])] ELSE s[k]]

\* int(text) for a text of an optional sign and decimal digits; any other
\* text among the inputs below raises ValueError.
RECURSIVE DigitsValue(_, _)
DigitsValue(s, n) ==
    IF n = 0 THEN 0 ELSE 10 * DigitsValue(s, n - 1) + (IndexIn(Digit, s[n]) - 1)

int(text) ==
    LET signed == Len(text) > 0 /\ text[1] \in {"-", "+"}
        digits == IF signed THEN Tail(text) ELSE text
        wellformed == Len(digits) > 0 /\ \A k \in 1..Len(digits) : digits[k] \in Range(Digit)
        magnitude == DigitsValue(digits, Len(digits))
    IN  IF ~wellformed THEN [ok |-> FALSE, value |-> 0]
        ELSE [ok |-> TRUE,
              value |-> IF signed /\ text[1] = "-" THEN 0 - magnitude ELSE magnitude]

\* A comparison that lets zero through.
forks_nonnegative(f) == f >= 0

\* lambda f: f > 0
forks_positive(f) == f > 0

\* lambda n: n in ("debug", "info", "warning", "error", "critical")
LOG_LEVELS == {<<"d", "e", "b", "u", "g">>, <<"i", "n", "f", "o">>,
               <<"w", "a", "r", "n", "i", "n", "g">>, <<"e", "r", "r", "o", "r">>,
               <<"c", "r", "i", "t", "i", "c", "a", "l">>}
log_level_known(n) == n \in LOG_LEVELS

\* The file system the process runs on: what each path is.
FileSystem ==
    [p \in {"tests/inventory.txt", "tests", "missing.txt"} |->
        CASE p = "tests/inventory.txt" -> "file"
          [] p = "tests" -> "dir"
          [] OTHER -> "missing"]
os_path_exists(p) == FileSystem[p] # "missing"
os_path_isfile(p) == FileSystem[p] = "file"

\* The schema's three keyed validators, each giving the converted value or
\* the error of its And(...).
validate_forks(v) ==
    LET f == int(v)
    IN  IF f.ok /\ forks_positive(f.value)
        THEN [ok |-> TRUE, value |-> f.value, error |-> ""]
        ELSE [ok |-> FALSE, value |-> 0,
              error |-> "The --forks value must be a positive integer value."]

validate_log_level(v) ==
    LET n == str_lower(v)
    IN  IF log_level_known(n)
        THEN [ok |-> TRUE, value |-> n, error |-> ""]
        ELSE [ok |-> FALSE, value |-> <<>>,
              error |-> "Possible values for --log-level are debug, info, warning, error, and critical."]

validate_inventory(v) ==
    IF ~os_path_exists(v)
    THEN [ok |-> FALSE, value |-> v, error |-> "Inventory file does not exist."]
    ELSE IF ~os_path_isfile(v)
    THEN [ok |-> FALSE, value |-> v, error |-> "Inventory file must be a file."]
    ELSE [ok |-> TRUE, value |-> v, error |-> ""]

\* schema.validate(args): the validated map, or the SchemaError of the first
\* key, in the order of docopt's map, whose validator fails.
schema_validate(a) ==
    LET forks == validate_forks(a["--forks"])
        level == validate_log_level(a["--log-level"])
        inventory == validate_inventory(a["<inventory-file>"])
    IN  IF ~forks.ok THEN [ok |-> FALSE, error |-> forks.error, value |-> a]
        ELSE IF ~level.ok THEN [ok |-> FALSE, error |-> level.error, value |-> a]
        ELSE IF ~inventory.ok THEN [ok |-> FALSE, error |-> inventory.error, value |-> a]
        ELSE [ok |-> TRUE, error |-> "",
              value |-> [k \in DOMAIN a |->
                           CASE k = "--forks" -> forks.value
                             [] k = "--log-level" -> level.value
                             [] k = "<inventory-file>" -> inventory.value
                             [] OTHER -> a[k]]]

\* docopt.docopt(__doc__): the argument map of a command line.
docopt(line) ==
    [k \in {"--become", "--forks", "--group", "--log-level", "<inventory-file>",
            "<output-csv-file>"} |->
        CASE k = "--become" -> line.become
          [] k = "--forks" -> line.forks
          [] k = "--group" -> line.group
          [] k = "--log-level" -> line.log_level
          [] k = "<inventory-file>" -> line.inventory
          [] OTHER -> line.output]

\* The command lines tried.
ForksInputs == {<<"1">>, <<"1", "0">>, <<"0">>, <<"-", "1">>, <<"a", "b", "c">>,
                <<"3", ".", "5">>, <<>>}
LogLevelInputs == {<<"i", "n", "f", "o">>, <<"D", "E", "B", "U", "G">>,
                   <<"W", "a", "r", "n", "i", "n", "g">>, <<"e", "r", "r", "o", "r">>,
                   <<"C", "R", "I", "T", "I", "C", "A", "L">>,
                   <<"c", "r", "i", "t", "i", "c", "a", "l", "2">>,
                   <<"v", "e", "r", "b", "o", "s", "e">>, <<>>}
CommandLines ==
    [forks : ForksInputs, log_level : LogLevelInputs, inventory : DOMAIN FileSystem,
     become : {FALSE}, group : {"all"}, output : {"out.csv"}]

-----------------------------------------------------------------------------
(* ResultCallback                                                          *)

EmptyDict == [k \in {} |-> <<>>]

\* self.results[host][task_name].append(result), results being a
\* defaultdict of defaultdicts of lists.
v2_runner_on_ok(res, host, task_name, result) ==
    LET host_results == IF host \in DOMAIN res THEN res[host] ELSE EmptyDict
        task_list == DefaultGet(host_results, task_name)
        appended == [t \in DOMAIN host_results \cup {task_name} |->
                        IF t = task_name THEN Append(task_list, result)
                        ELSE host_results[t]]
    IN  [h \in DOMAIN res \cup {host} |-> IF h = host THEN appended ELSE res[h]]

\* logging.warning(...) only.
v2_runner_on_unreachable(res, host, task_name) == res

\* A handler that looks the host up in the defaultdict, which creates its entry.
v2_runner_on_failed_lookup(res, host, task_name) ==
    [h \in DOMAIN res \cup {host} |-> IF h \in DOMAIN res THEN res[h] ELSE EmptyDict]

\* logging.error(...) only.
v2_runner_on_failed(res, host, task_name) == res

\* The insertion order of the keys of a dict that was ord before a handler ran.
KeysAfter(ord, res) ==
    LET new == DOMAIN res \ Range(ord)
    IN  IF new = {} THEN ord ELSE Append(ord, CHOOSE k \in new : TRUE)

TaskNames == {"Gathering Facts", "stat"}

\* What the engine reports as the result of a task on a host: the host's
\* facts, or the stat of one of the play's paths (here always of a file
\* that exists).
PayloadsOf(h, task_name) ==
    IF task_name = "Gathering Facts" THEN {FactsOf(h)}
    ELSE {StatResult(p, [exists |-> TRUE, mtime |-> 1594000000]) : p \in Range(StatPaths)}

\* The probe an ok result answers: fact gathering, or the stat of one path.
ProbeOf(task_name, result) ==
    IF task_name = "Gathering Facts" THEN "facts"
    ELSE result.invocation.module_args.path

-----------------------------------------------------------------------------
(* main and run_ansible                                                    *)

MaxEvents == 4

Idle ==
    /\ argv = [forks |-> <<>>, log_level |-> <<>>, inventory |-> "missing.txt",
               become |-> FALSE, group |-> "all", output |-> "out.csv"]
    /\ args = EmptyDict
    /\ validated_args = EmptyDict
    /\ stages = <<>>
    /\ stderr = <<>>
    /\ exit_status = PyNone
    /\ retval = Unset
    /\ logging_state = [configured |-> FALSE, level |-> <<>>, shutdown |-> FALSE]
    /\ error = None

ProbeIdle ==
    /\ apc = "not called"
    /\ tqm = None
    /\ tmpdir = "present"
    /\ pending = None
    /\ results = EmptyDict
    /\ order = <<>>
    /\ nevents = 0
    /\ okd = {}
    /\ bad = {}
    /\ events = <<>>

CsvIdle ==
    /\ idx = 0
    /\ csv_data = <<>>
    /\ csv_file = [opened |-> FALSE, buffered |-> <<>>, disk |-> <<"previous report">>]
    /\ handle = None

RowIdle ==
    /\ tz = 0
    /\ row_in = EmptyDict
    /\ row_out = Raised(None)
    /\ row_pc = "idle"

Init ==
    /\ argv \in CommandLines
    /\ args = EmptyDict
    /\ validated_args = EmptyDict
    /\ pc = "PARSE_ARGS"
    /\ stages = <<"PARSE_ARGS">>
    /\ stderr = <<>>
    /\ exit_status = PyNone
    /\ retval = Unset
    /\ logging_state = [configured |-> FALSE, level |-> <<>>, shutdown |-> FALSE]
    /\ error = None
    /\ ProbeIdle /\ CsvIdle /\ RowIdle

Enter(stage) ==
    /\ pc' = stage
    /\ stages' = Append(stages, stage)

\* An exception leaves main.
Propagate(exc) ==
    /\ pc' = "raised"
    /\ error' = exc

\* args = docopt.docopt(__doc__, version=__version__)
ParseArgs ==
    /\ pc = "PARSE_ARGS"
    /\ args' = docopt(argv)
    /\ Enter("VALIDATE")
    /\ UNCHANGED <<argv, validated_args, stderr, exit_status, retval, logging_state, error>>
    /\ UNCHANGED <<probeVars, csvVars, rowVars>>

\* schema.validate(args); on SchemaError print(err, file=sys.stderr); sys.exit(1)
Validate ==
    /\ pc = "VALIDATE"
    /\ LET v == schema_validate(args)
       IN  IF v.ok
           THEN /\ validated_args' = v.value
                /\ Enter("CONFIGURE_LOGGING")
                /\ UNCHANGED <<stderr, exit_status>>
           ELSE /\ stderr' = Append(stderr, v.error)
                /\ exit_status' = PyInt(1)
                /\ pc' = "exited"
                /\ UNCHANGED <<validated_args, stages>>
    /\ UNCHANGED <<argv, args, retval, logging_state, error>>
    /\ UNCHANGED <<probeVars, csvVars, rowVars>>

\* logging.basicConfig(..., level=log_level.upper()), then the call of run_ansible.
ConfigureLogging ==
    /\ pc = "CONFIGURE_LOGGING"
    /\ logging_state' = [logging_state EXCEPT
                            !.configured = TRUE,
                            !.level = str_upper(validated_args["--log-level"])]
    /\ Enter("RUN_PROBE")
    /\ apc' = "start"
    /\ UNCHANGED <<argv, args, validated_args, stderr, exit_status, retval, error>>
    /\ UNCHANGED <<tqm, tmpdir, pending, results, order, nevents, okd, bad, events>>
    /\ UNCHANGED <<csvVars, rowVars>>

\* context.CLIARGS, DataLoader(), passwords, results_callback = ResultCallback()
ProbeSetup ==
    /\ pc = "RUN_PROBE" /\ apc = "start"
    /\ results' = EmptyDict
    /\ order' = <<>>
    /\ apc' = "InventoryManager"
    /\ UNCHANGED <<tqm, tmpdir, pending, nevents, okd, bad, events>>
    /\ UNCHANGED <<mainVars, csvVars, rowVars>>

\* The engine calls made before the try block, and the first one made in it.
PreTrySteps == <<"InventoryManager", "VariableManager", "Play.load", "TaskQueueManager">>

\* InventoryManager(...), VariableManager(...), Play().load(...): each returns,
\* or raises; no try block is entered yet, so the exception leaves
\* run_ansible, and main, at once.
ProbePreTry ==
    /\ pc = "RUN_PROBE"
    /\ \E k \in 1..(Len(PreTrySteps) - 1) :
        /\ apc = PreTrySteps[k]
        /\ \/ /\ apc' = PreTrySteps[k + 1]
              /\ UNCHANGED <<pc, error>>
           \/ /\ apc' = "raised"
              /\ Propagate("AnsibleError")
    /\ UNCHANGED <<argv, args, validated_args, stages, stderr, exit_status, retval,
                   logging_state>>
    /\ UNCHANGED <<tqm, tmpdir, pending, results, order, nevents, okd, bad, events>>
    /\ UNCHANGED <<csvVars, rowVars>>

\* tqm = TaskQueueManager(...), inside the try block.
ProbeTqm ==
    /\ pc = "RUN_PROBE" /\ apc = "TaskQueueManager"
    /\ \/ /\ tqm' = "created"
          /\ apc' = "tqm.run"
          /\ UNCHANGED pending
       \/ /\ pending' = "AnsibleError"
          /\ apc' = "finally"
          /\ UNCHANGED tqm
    /\ UNCHANGED <<tmpdir, results, order, nevents, okd, bad, events>>
    /\ UNCHANGED <<mainVars, csvVars, rowVars>>

\* During tqm.run(play) the engine reports a task of a host as ok.
EngineOk ==
    /\ pc = "RUN_PROBE" /\ apc = "tqm.run" /\ nevents < MaxEvents
    /\ \E h \in Hosts, t \in TaskNames :
        \E r \in PayloadsOf(h, t) :
            /\ results' = v2_runner_on_ok(results, h, t, r)
            /\ order' = KeysAfter(order, results')
            /\ okd' = okd \cup {<<h, ProbeOf(t, r)>>}
    /\ nevents' = nevents + 1
    /\ UNCHANGED <<apc, tqm, tmpdir, pending, bad, events>>
    /\ UNCHANGED <<mainVars, csvVars, rowVars>>

\* ... as unreachable.
EngineUnreachable ==
    /\ pc = "RUN_PROBE" /\ apc = "tqm.run" /\ nevents < MaxEvents
    /\ \E h \in Hosts, t \in TaskNames :
            /\ results' = v2_runner_on_unreachable(results, h, t)
            /\ order' = KeysAfter(order, results')
            /\ bad' = bad \cup {h}
    /\ nevents' = nevents + 1
    /\ UNCHANGED <<apc, tqm, tmpdir, pending, okd, events>>
    /\ UNCHANGED <<mainVars, csvVars, rowVars>>

\* ... as failed.
EngineFailed ==
    /\ pc = "RUN_PROBE" /\ apc = "tqm.run" /\ nevents < MaxEvents
    /\ \E h \in Hosts, t \in TaskNames :
            /\ results' = v2_runner_on_failed(results, h, t)
            /\ order' = KeysAfter(order, results')
            /\ bad' = bad \cup {h}
    /\ nevents' = nevents + 1
    /\ UNCHANGED <<apc, tqm, tmpdir, pending, okd, events>>
    /\ UNCHANGED <<mainVars, csvVars, rowVars>>

\* tqm.run(play) returns or raises.
ProbeRunEnds ==
    /\ pc = "RUN_PROBE" /\ apc = "tqm.run"
    /\ apc' = "finally"
    /\ \/ UNCHANGED pending
       \/ pending' = "AnsibleError"
    /\ UNCHANGED <<tqm, tmpdir, results, order, nevents, okd, bad, events>>
    /\ UNCHANGED <<mainVars, csvVars, rowVars>>

\* The finally block: tqm.cleanup() if tqm is not None, shutil.rmtree(..., True);
\* then the pending exception goes on, or run_ansible returns the results
\* and main starts the loop over them.
ProbeFinally ==
    /\ pc = "RUN_PROBE" /\ apc = "finally"
    /\ tqm' = IF tqm # None THEN "cleaned" ELSE tqm
    /\ tmpdir' = "removed"
    /\ IF pending # None
       THEN /\ apc' = "raised"
            /\ Propagate(pending)
            /\ UNCHANGED stages
       ELSE /\ apc' = "returned"
            /\ Enter("BUILD_ROWS")
            /\ UNCHANGED error
    /\ UNCHANGED <<argv, args, validated_args, stderr, exit_status, retval, logging_state>>
    /\ UNCHANGED <<pending, results, order, nevents, okd, bad, events>>
    /\ UNCHANGED <<csvVars, rowVars>>

-----------------------------------------------------------------------------
(* The row loop, write_csv and the end of main                             *)

\* results.items(): the entries in insertion order.
dict_items(res, ord) == [k \in 1..Len(ord) |-> <<ord[k], res[ord[k]]>>]

\* What reading host_results[key] leaves in the defaultdict: the key.
Touch(d, key) == [k \in DOMAIN d \cup {key} |-> DefaultGet(d, k)]

\* A loop body that skips the host whose row cannot be built.
row_loop_body_skipping(data, r) ==
    IF r.exc # None THEN [exc |-> None, csv_data |-> data]
    ELSE [exc |-> None, csv_data |-> Append(data, r.row)]

\* One turn of "row = create_host_row(host_results); csv_data.append(row)":
\* the exception that leaves the loop, or the data with the row appended.
row_loop_body(data, r) ==
    IF r.exc # None THEN [exc |-> r.exc, csv_data |-> data]
    ELSE [exc |-> None, csv_data |-> Append(data, r.row)]

BuildRow ==
    /\ pc = "BUILD_ROWS"
    /\ idx < Len(dict_items(results, order))
    /\ LET item == dict_items(results, order)[idx + 1]
           r == create_host_row(item[2])
           turn == row_loop_body(csv_data, r)
           read == IF r.exc = "IndexError" THEN Touch(item[2], "Gathering Facts")
                   ELSE Touch(Touch(item[2], "Gathering Facts"), "stat")
       IN  /\ results' = [results EXCEPT ![item[1]] = read]
           /\ csv_data' = turn.csv_data
           /\ IF turn.exc # None
              THEN /\ Propagate(turn.exc)
                   /\ UNCHANGED idx
              ELSE /\ idx' = idx + 1
                   /\ UNCHANGED <<pc, error>>
    /\ UNCHANGED <<argv, args, validated_args, stages, stderr, exit_status, retval,
                   logging_state>>
    /\ UNCHANGED <<apc, tqm, tmpdir, pending, order, nevents, okd, bad, events>>
    /\ UNCHANGED <<csv_file, handle, rowVars>>

\* The loop is over: logging.info(...) and the call of write_csv.
BuildDone ==
    /\ pc = "BUILD_ROWS"
    /\ idx = Len(dict_items(results, order))
    /\ Enter("WRITE_CSV")
    /\ UNCHANGED <<argv, args, validated_args, stderr, exit_status, retval,
                   logging_state, error>>
    /\ UNCHANGED <<probeVars, csvVars, rowVars>>

\* A line of csv.DictWriter(f, fields, extrasaction="ignore"): the row's
\* values in the order of fields, a missing or None value as "".
RenderRow(fields, row) ==
    [k \in 1..Len(fields) |->
        IF fields[k] \in DOMAIN row /\ row[fields[k]] # None THEN row[fields[k]] ELSE ""]

\* Closing a file object writes out what it buffers.
Close(f) == [f EXCEPT !.disk = f.disk \o f.buffered, !.buffered = <<>>]

\* open(output_filename, "w"): truncates the file, or raises OSError.
WriteOpen ==
    /\ pc = "WRITE_CSV" /\ handle = None
    /\ \/ /\ handle' = "open"
          /\ csv_file' = [opened |-> TRUE, buffered |-> <<>>, disk |-> <<>>]
          /\ UNCHANGED <<pc, error>>
       \/ /\ Propagate("OSError")
          /\ UNCHANGED <<handle, csv_file>>
    /\ UNCHANGED <<argv, args, validated_args, stages, stderr, exit_status, retval,
                   logging_state>>
    /\ UNCHANGED <<probeVars, idx, csv_data, rowVars>>

\* csv_writer.writeheader(), then csv_writer.writerow(row) for each row: the
\* line goes to the file object, or the write raises OSError.
WriteLine ==
    /\ pc = "WRITE_CSV" /\ handle = "open"
    /\ Len(csv_file.buffered) < 1 + Len(csv_data)
    /\ LET n == Len(csv_file.buffered)
           line == IF n = 0 THEN FIELDS ELSE RenderRow(FIELDS, csv_data[n])
       IN  \/ /\ csv_file' = [csv_file EXCEPT !.buffered = Append(@, line)]
              /\ UNCHANGED <<pc, error>>
           \/ /\ Propagate("OSError")
              /\ UNCHANGED csv_file
    /\ UNCHANGED <<argv, args, validated_args, stages, stderr, exit_status, retval,
                   logging_state>>
    /\ UNCHANGED <<probeVars, idx, csv_data, handle, rowVars>>

\* What can have become of the file object when write_csv returns: nothing
\* closes it, so it is closed once the interpreter finalizes it, which is at
\* the return under reference counting and at some later time otherwise.
HandleAtReturn == {"open", "closed"}

\* write_csv returns.
WriteReturn ==
    /\ pc = "WRITE_CSV" /\ handle = "open"
    /\ Len(csv_file.buffered) = 1 + Len(csv_data)
    /\ \E fate \in HandleAtReturn :
        /\ handle' = fate
        /\ csv_file' = IF fate = "closed" THEN Close(csv_file) ELSE csv_file
    /\ Enter("SHUTDOWN_LOGGING")
    /\ UNCHANGED <<argv, args, validated_args, stderr, exit_status, retval,
                   logging_state, error>>
    /\ UNCHANGED <<probeVars, idx, csv_data, rowVars>>

\* The interpreter finalizes the file object that write_csv left open.
Finalize ==
    /\ pc \in {"SHUTDOWN_LOGGING", "returned", "raised"}
    /\ handle = "open"
    /\ handle' = "closed"
    /\ csv_file' = Close(csv_file)
    /\ UNCHANGED <<mainVars, probeVars, idx, csv_data, rowVars>>

\* logging.shutdown(), and main falls off its end.
ShutdownLogging ==
    /\ pc = "SHUTDOWN_LOGGING"
    /\ logging_state' = [logging_state EXCEPT !.shutdown = TRUE]
    /\ pc' = "returned"
    /\ retval' = PyNone
    /\ UNCHANGED <<argv, args, validated_args, stages, stderr, exit_status, error>>
    /\ UNCHANGED <<probeVars, csvVars, rowVars>>

Next ==
    \/ ParseArgs
    \/ Validate
    \/ ConfigureLogging
    \/ ProbeSetup
    \/ ProbePreTry
    \/ ProbeTqm
    \/ EngineOk
    \/ EngineUnreachable
    \/ EngineFailed
    \/ ProbeRunEnds
    \/ ProbeFinally
    \/ BuildRow
    \/ BuildDone
    \/ WriteOpen
    \/ WriteLine
    \/ WriteReturn
    \/ Finalize
    \/ ShutdownLogging

Spec == Init /\ [][Next]_vars

-----------------------------------------------------------------------------
(* create_host_row applied to the result sets a host can have.             *)

MaxFacts == 2
MaxStats == 3

SeqsUpTo(S, n) == UNION {[1..k -> S] : k \in 0..n}

\* A host's defaultdict: a task name is a key once a result was appended.
HostResultsOf(gathered, stat_tasks) ==
    [t \in {u \in TaskNames : IF u = "stat" THEN stat_tasks # <<>> ELSE gathered # <<>>} |->
        IF t = "stat" THEN stat_tasks ELSE gathered]

HostResultSets ==
    {HostResultsOf(g, st) : g \in SeqsUpTo({FactsOf(h) : h \in Hosts}, MaxFacts),
                            st \in SeqsUpTo(StatResults, MaxStats)}

TzOffsets == {0 - 18000, 0, 3600}

InitRow ==
    /\ Idle /\ pc = "idle" /\ ProbeIdle /\ CsvIdle
    /\ tz \in TzOffsets
    /\ row_in \in HostResultSets
    /\ row_out = Raised(None)
    /\ row_pc = "ready"

RowBuild ==
    /\ row_pc = "ready"
    /\ row_out' = create_host_row(row_in)
    /\ row_in' = IF row_out'.exc = "IndexError" THEN Touch(row_in, "Gathering Facts")
                 ELSE Touch(Touch(row_in, "Gathering Facts"), "stat")
    /\ row_pc' = "done"
    /\ UNCHANGED <<tz, mainVars, probeVars, csvVars>>

NextRow == RowBuild

SpecRow == InitRow /\ [][NextRow]_vars

-----------------------------------------------------------------------------
(* A ResultCallback on its own, under any sequence of callbacks.           *)

MaxCalls == 3

InitCallback == Idle /\ pc = "idle" /\ ProbeIdle /\ CsvIdle /\ RowIdle

Logged(kind, h, t, r) == [kind |-> kind, host |-> h, task_name |-> t, result |-> r]

OnOk ==
    /\ pc = "idle" /\ row_pc = "idle" /\ Len(events) < MaxCalls
    /\ \E h \in Hosts, t \in TaskNames :
        \E r \in PayloadsOf(h, t) :
            /\ results' = v2_runner_on_ok(results, h, t, r)
            /\ events' = Append(events, Logged("ok", h, t, r))
    /\ order' = KeysAfter(order, results')
    /\ UNCHANGED <<apc, tqm, tmpdir, pending, nevents, okd, bad>>
    /\ UNCHANGED <<mainVars, csvVars, rowVars>>

OnUnreachable ==
    /\ pc = "idle" /\ row_pc = "idle" /\ Len(events) < MaxCalls
    /\ \E h \in Hosts, t \in TaskNames :
            /\ results' = v2_runner_on_unreachable(results, h, t)
            /\ events' = Append(events, Logged("unreachable", h, t, EmptyDict))
    /\ order' = KeysAfter(order, results')
    /\ UNCHANGED <<apc, tqm, tmpdir, pending, nevents, okd, bad>>
    /\ UNCHANGED <<mainVars, csvVars, rowVars>>

OnFailed ==
    /\ pc = "idle" /\ row_pc = "idle" /\ Len(events) < MaxCalls
    /\ \E h \in Hosts, t \in TaskNames :
            /\ results' = v2_runner_on_failed(results, h, t)
            /\ events' = Append(events, Logged("failed", h, t, EmptyDict))
    /\ order' = KeysAfter(order, results')
    /\ UNCHANGED <<apc, tqm, tmpdir, pending, nevents, okd, bad>>
    /\ UNCHANGED <<mainVars, csvVars, rowVars>>

NextCallback == OnOk \/ OnUnreachable \/ OnFailed

SpecCallback == InitCallback /\ [][NextCallback]_vars

-----------------------------------------------------------------------------
(* Properties                                                              *)

\* Two characters that are the same letter in either case.
SameLetter(a, b) ==
    \/ a = b
    \/ \E k \in 1..Len(UpperCase) : {a, b} = {UpperCase[k], LowerCase[k]}

\* The command line is valid by the usage text: --forks is the decimal text of
\* a positive integer, --log-level spells one of the five levels in any
\* case, and the inventory is a regular file.
ArgvValid ==
    /\ argv.forks \in {<<"1">>, <<"1", "0">>}
    /\ \E level \in LOG_LEVELS :
        /\ Len(level) = Len(argv.log_level)
        /\ \A k \in 1..Len(level) : SameLetter(level[k], argv.log_level[k])
    /\ FileSystem[argv.inventory] = "file"

CsvUntouched ==
    /\ ~csv_file.opened
    /\ csv_file.disk = <<"previous report">>
    /\ csv_file.buffered = <<>>
    /\ handle = None

\* C1: a run whose arguments fail validation ends with exit status 1 and the
\* error on stderr, with run_ansible never called, no row built and the CSV
\* never opened; a run whose arguments are valid passes validation.
Thm_C1 ==
    /\ pc = "exited" =>
        /\ ~ArgvValid
        /\ exit_status = PyInt(1)
        /\ Len(stderr) = 1 /\ stderr[1] # ""
        /\ apc = "not called" /\ nevents = 0 /\ results = EmptyDict
        /\ idx = 0 /\ csv_data = <<>>
        /\ CsvUntouched
    /\ pc \notin {"PARSE_ARGS", "VALIDATE", "exited"} =>
        /\ ArgvValid
        /\ exit_status = PyNone /\ stderr = <<>>
        /\ validated_args # EmptyDict
    /\ ArgvValid => pc # "exited"

Wit_C1 ==
    /\ pc = "exited"
    /\ argv.forks = <<"0">>
    /\ argv.log_level = <<"i", "n", "f", "o">>
    /\ argv.inventory = "tests/inventory.txt"
    /\ stderr = <<"The --forks value must be a positive integer value.">>

\* The lines of the CSV file, written out or still buffered, and the hosts
\* that have a row in it (System Name is the second field).
CsvLines == csv_file.disk \o csv_file.buffered
HasRow(h) == \E k \in 2..Len(CsvLines) : CsvLines[k][2] = h
AllOk(h) == \A probe \in {"facts"} \cup Range(StatPaths) : <<h, probe>> \in okd

\* C2: when main has returned, the CSV has a row for a host if and only if
\* the host had an ok callback for fact gathering and for each of the three
\* stats, and no host with an unreachable or failed callback has a row.
Orig_C2 ==
    pc = "returned" =>
        \A h \in Hosts :
            /\ HasRow(h) <=> AllOk(h)
            /\ h \in bad => ~HasRow(h)

\* C3: when the probe has returned and every host with results had its fact
\* gathering ok and then either all three stats ok or an unreachable or
\* failed callback, main is not ended by an exception of the row loop.
Orig_C3 ==
    (/\ apc = "returned"
     /\ \A h \in DOMAIN results :
            /\ <<h, "facts">> \in okd
            /\ AllOk(h) \/ h \in bad
     /\ pc = "raised")
    => error = "OSError"

\* C4: once run_ansible has returned or raised, the temporary directory is
\* removed and no task queue manager is left without cleanup.
Orig_C4 ==
    apc \in {"returned", "raised"} => tmpdir = "removed" /\ tqm # "created"

\* C5: a run ended by an exception of the probe or of the row loop leaves
\* the CSV untouched, and the CSV is opened only once the probe has returned
\* and a row is built for every host of the results.
Thm_C5 ==
    /\ (pc = "raised" /\ error \in {"AnsibleError", "IndexError", "KeyError"}) =>
        CsvUntouched
    /\ pc \in {"PARSE_ARGS", "VALIDATE", "CONFIGURE_LOGGING", "RUN_PROBE", "BUILD_ROWS"} =>
        CsvUntouched
    /\ csv_file.opened =>
        /\ apc = "returned"
        /\ Len(csv_data) = Cardinality(DOMAIN results)
        /\ \A h \in DOMAIN results :
            \E k \in 1..Len(csv_data) : csv_data[k]["System Name"] = h

Wit_C5 ==
    /\ pc = "raised" /\ error = "KeyError"
    /\ Len(csv_data) = 1
    /\ Cardinality(DOMAIN results) = 2
    /\ CsvUntouched

AllStages == <<"PARSE_ARGS", "VALIDATE", "CONFIGURE_LOGGING", "RUN_PROBE",
               "BUILD_ROWS", "WRITE_CSV", "SHUTDOWN_LOGGING">>

\* C6: when main has returned it has passed through the seven stages in
\* order, logging is shut down, and its return value is 0.
Orig_C6 ==
    pc = "returned" =>
        /\ stages = AllStages
        /\ logging_state.shutdown
        /\ retval = PyInt(0)

\* C7: once write_csv has returned or raised, the file object it opened is
\* closed, and after a return the header and every row are in the file.
Orig_C7 ==
    (csv_file.opened /\ pc \in {"SHUTDOWN_LOGGING", "returned", "raised"}) =>
        /\ handle = "closed"
        /\ pc # "raised" => Len(csv_file.disk) = 1 + Len(csv_data)

StatsIn == DefaultGet(row_in, "stat")
FactsIn == DefaultGet(row_in, "Gathering Facts")
HasStat(p) == \E k \in 1..Len(StatsIn) : StatsIn[k].invocation.module_args.path = p

LastStat(p) ==
    LET k == CHOOSE j \in 1..Len(StatsIn) :
                /\ StatsIn[j].invocation.module_args.path = p
                /\ \A m \in (j + 1)..Len(StatsIn) : StatsIn[m].invocation.module_args.path # p
    IN  StatsIn[k].stat

\* The text of a stat outcome's time: UTC, to the minute, epoch 0 without mtime.
ExpectedTime(stat) ==
    IF "mtime" \notin DOMAIN stat THEN "01/01/1970 00:00"
    ELSE IF stat.mtime = 119 THEN "01/01/1970 00:01"
    ELSE "07/06/2020 01:46"

Complete == FactsIn # <<>> /\ \A p \in Range(StatPaths) : HasStat(p)

RECURSIVE OkResults(_, _, _)
OkResults(n, h, t) ==
    IF n = 0 THEN <<>>
    ELSE LET e == events[n]
         IN  IF e.kind = "ok" /\ e.host = h /\ e.task_name = t
             THEN Append(OkResults(n - 1, h, t), e.result)
             ELSE OkResults(n - 1, h, t)

OkEvents == {events[k] : k \in {j \in 1..Len(events) : events[j].kind = "ok"}}

\* C10: after any sequence of callbacks, results[host][task] is the sequence
\* of the results of the ok callbacks for that host and task in arrival
\* order, and results has no other entry: a host is a key only if it had an
\* ok callback, and so is a task name of a host.
Thm_C10 ==
    /\ DOMAIN results = {e.host : e \in OkEvents}
    /\ \A h \in DOMAIN results :
        /\ DOMAIN results[h] = {e.task_name : e \in {x \in OkEvents : x.host = h}}
        /\ \A t \in DOMAIN results[h] : results[h][t] = OkResults(Len(events), h, t)

Wit_C10 ==
    /\ Len(events) = 3
    /\ events[1].kind = "ok" /\ events[1].host = "h1" /\ events[1].task_name = "stat"
    /\ events[2].kind = "failed" /\ events[2].host = "h2"
    /\ events[3].kind = "ok" /\ events[3].host = "h1" /\ events[3].task_name = "stat"
    /\ events[1].result # events[3].result
    /\ DOMAIN results = {"h1"}
    /\ Len(results["h1"]["stat"]) = 2

====
